---- MODULE Spec2Model ----
(***************************************************************************)
(* A model of msd.py: compute_msd (the mean-squared displacement of a      *)
(* trajectory, averaged and per atom) and fit_d (the linear fit of the     *)
(* diffusion coefficient).                                                 *)
(*                                                                         *)
(* Numbers.  The program computes in floating point; the model computes    *)
(* the same expressions exactly.  A quotient is kept as a record           *)
(* [num, den] that is never reduced, and two quotients are compared by     *)
(* cross-multiplication (RatEq).  A quotient with den = 0 stands for the   *)
(* nan numpy produces when it divides by a size of zero.                   *)
(*                                                                         *)
(* Indices.  Python indices are 0-based and are kept 0-based in every      *)
(* index array of the model (compute_MSD_frames, idx1, idx2, frame_bound); *)
(* TLA+ sequences are 1-based, so frame i of xyz is xyz[i + 1] and output  *)
(* column mp is MSD_vector[mp + 1].                                        *)
(***************************************************************************)
EXTENDS Integers, Sequences, FiniteSets, TLC

\* ------------------------------------------------------------------ bounds

\* The longest trajectory, in frames.
MaxFrames == 3
\* The largest number of atoms.
MaxAtoms == 2
\* The largest step_jump, and how far below zero an invalid step_jump goes.
MaxStep == 2
MaxNegStep == 1

\* The longest MSD curve handed to fit_d, the largest sampling interval of its
\* time axis (ps) and the largest diffusion coefficient of a synthetic curve
\* (nm^2/ps).
MaxCurveLen == 8
MaxDt == 2
MaxD == 2

\* The positions an atom can take in a frame (nm); every axis varies.
Points == { <<0, 0, 0>>, <<1, -2, 3>> }

\* ------------------------------------------------------------ state

VARIABLES
    \* compute_msd
    xyz,                  \* the argument: frames x atoms x 3
    step_jump,            \* the argument
    start_frame,          \* the argument
    pc,                   \* "idle", "call", "loop", "done", "error"
    error,                \* the exception that ended the call, or "none"
    compute_MSD_frames,   \* the lags, line 44
    MSD_vector,           \* line 48
    atom_MSD_vector,      \* line 49
    mp,                   \* the running output index, line 52
    it,                   \* the position of the for loop in compute_MSD_frames
    MSD_step,             \* the loop variable of line 53; -1 before the first lag
    idx1,                 \* the frames read into mat1 by the last iteration
    idx2,                 \* the frames read into mat2 by the last iteration
    writes,               \* how many times each output column was assigned
    \* fit_d
    MSD,                  \* the argument
    times,                \* the argument
    frac_range,           \* the argument: two fractions, each <<n, d>> for n/d
    fpc,                  \* "idle", "call", "returned"
    frame_bound,          \* line 99
    result                \* what the call ended in

msdVars == << xyz, step_jump, start_frame, pc, error, compute_MSD_frames,
              MSD_vector, atom_MSD_vector, mp, it, MSD_step, idx1, idx2, writes >>
fitVars == << MSD, times, frac_range, fpc, frame_bound, result >>
vars == << msdVars, fitVars >>

\* ------------------------------------------------------------ numbers

Rat(n, d) == [num |-> n, den |-> d]
RatEq(a, b) == a.den # 0 /\ b.den # 0 /\ a.num * b.den = b.num * a.den
Zero == Rat(0, 1)

\* ------------------------------------------------------------ numpy

\* np.arange(start, stop, step) for step # 0: start, start + step, ... while the
\* value is before stop.
RECURSIVE arange(_, _, _)
arange(start, stop, step) ==
    IF (step > 0 /\ start < stop) \/ (step < 0 /\ start > stop)
    THEN <<start>> \o arange(start + step, stop, step)
    ELSE << >>

\* np.zeros(n) and np.zeros((r, c)).
zeros(n) == [k \in 1..n |-> Zero]
zeros2(r, c) == [a \in 1..r |-> zeros(c)]

\* xyz[idx, :, :] for an index array idx.
take(arr, idx) == [j \in 1..Len(idx) |-> arr[idx[j] + 1]]

\* The length of the first axis of m1 - m2 under numpy's broadcasting, or -1 when
\* the shapes do not broadcast (ValueError).
broadcast_len(l1, l2) ==
    IF l1 = l2 THEN l1
    ELSE IF l1 = 1 THEN l2
    ELSE IF l2 = 1 THEN l1
    ELSE -1

row(m, j) == IF Len(m) = 1 THEN m[1] ELSE m[j]

\* np.square(mat1 - mat2), line 60.
square_diff_sign_slip(mat1, mat2) ==
    [j \in 1..broadcast_len(Len(mat1), Len(mat2)) |->
        [a \in 1..Len(row(mat1, j)) |->
            [d \in 1..3 |-> (row(mat1, j)[a][d] + row(mat2, j)[a][d])
                            * (row(mat1, j)[a][d] + row(mat2, j)[a][d])]]]

square_diff(mat1, mat2) ==
    [j \in 1..broadcast_len(Len(mat1), Len(mat2)) |->
        [a \in 1..Len(row(mat1, j)) |->
            [d \in 1..3 |-> (row(mat1, j)[a][d] - row(mat2, j)[a][d])
                            * (row(mat1, j)[a][d] - row(mat2, j)[a][d])]]]

\* np.sum of a vector, of a 2-axis and of a 3-axis array.
RECURSIVE sum1(_)
sum1(v) == IF v = << >> THEN 0 ELSE Head(v) + sum1(Tail(v))

RECURSIVE sum2(_)
sum2(m) == IF m = << >> THEN 0 ELSE sum1(Head(m)) + sum2(Tail(m))

RECURSIVE sum3(_)
sum3(t) == IF t = << >> THEN 0 ELSE sum2(Head(t)) + sum3(Tail(t))

\* ------------------------------------------------------------ compute_msd

\* Lines 38-39.
end_frame == Len(xyz)
n_atoms == Len(xyz[1])

\* Line 43.
max_step == end_frame - start_frame

\* Line 44: np.arange(min_step, max_step, step_jump) with min_step = 0.
lags_stop_inclusive(stop, step) == arange(0, stop + 1, step)

lags_abs_step(stop, step) == arange(0, stop, IF step < 0 THEN 0 - step ELSE step)

lags(stop, step) == arange(0, stop, step)

\* Line 45.
num_frames == Len(compute_MSD_frames)

\* The index arrays of lines 56 and 57.
mat1_idx_from_zero(step) == arange(0, end_frame - step, 1)

mat1_idx(step) == arange(start_frame, end_frame - step, 1)
mat2_idx(step) == arange(start_frame + step, end_frame, 1)

\* Line 63: (np.sum(MSD_mat) / (MSD_mat.size*1.0)) * 3.0, MSD_mat.size being the
\* product of the shape (pairs, n_atoms, 3).
ave_MSD_unscaled(MSD_mat) == Rat(sum3(MSD_mat), Len(MSD_mat) * n_atoms * 3)

ave_MSD(MSD_mat) == Rat(sum3(MSD_mat) * 3, Len(MSD_mat) * n_atoms * 3)

\* Line 68: MSD_mat[:, a, :] (a is 0-based).
cur_atom_MSD_mat(MSD_mat, a) == [j \in 1..Len(MSD_mat) |-> MSD_mat[j][a + 1]]

\* Line 69: (np.sum(cur)/(1.0*cur.size)) * 3.0, cur.size = pairs * 3.
ave_atom_MSD_all_size(MSD_mat, a) ==
    Rat(sum2(cur_atom_MSD_mat(MSD_mat, a)) * 3, Len(MSD_mat) * n_atoms * 3)

ave_atom_MSD(MSD_mat, a) ==
    Rat(sum2(cur_atom_MSD_mat(MSD_mat, a)) * 3, Len(MSD_mat) * 3)

\* Line 73.
next_mp_stuck(m) == m

next_mp(m) == m + 1

\* The valid trajectories: F >= 1 frames of N >= 1 atoms.
Trajectories ==
    UNION { [1..F -> [1..N -> Points]] : F \in 1..MaxFrames, N \in 1..MaxAtoms }

NoResult == [kind |-> "none", D |-> Rat(0, 0)]

InitFitIdle ==
    /\ MSD = << >>
    /\ times = << >>
    /\ frac_range = << <<1, 4>>, <<2, 4>> >>
    /\ fpc = "idle"
    /\ frame_bound = << >>
    /\ result = NoResult

\* A call of compute_msd: a valid trajectory and start_frame; step_jump is any
\* integer the caller may pass, valid (>= 1) or not.
Init ==
    /\ xyz \in Trajectories
    /\ step_jump \in (0 - MaxNegStep)..MaxStep
    /\ start_frame \in 0..(Len(xyz) - 1)
    /\ pc = "call"
    /\ error = "none"
    /\ compute_MSD_frames = << >>
    /\ MSD_vector = << >>
    /\ atom_MSD_vector = << >>
    /\ mp = 0
    /\ it = 0
    /\ MSD_step = -1
    /\ idx1 = << >>
    /\ idx2 = << >>
    /\ writes = << >>
    /\ InitFitIdle

\* Lines 38-52, when np.arange raises: a step of 0 divides by zero in the
\* computation of the length (ZeroDivisionError for Python integers).
SetupRaises ==
    /\ pc = "call"
    /\ step_jump = 0
    /\ pc' = "error"
    /\ error' = "ZeroDivisionError"
    /\ UNCHANGED << xyz, step_jump, start_frame, compute_MSD_frames, MSD_vector,
                    atom_MSD_vector, mp, it, MSD_step, idx1, idx2, writes >>
    /\ UNCHANGED fitVars

\* Lines 38-52.
Setup ==
    /\ pc = "call"
    /\ step_jump # 0
    /\ compute_MSD_frames' = lags(max_step, step_jump)
    /\ MSD_vector' = zeros(Len(compute_MSD_frames'))
    /\ atom_MSD_vector' = zeros2(n_atoms, Len(compute_MSD_frames'))
    /\ writes' = [k \in 1..Len(compute_MSD_frames') |-> 0]
    /\ mp' = 0
    /\ it' = 0
    /\ pc' = "loop"
    /\ UNCHANGED << xyz, step_jump, start_frame, error, MSD_step, idx1, idx2 >>
    /\ UNCHANGED fitVars

\* One iteration of the loop of line 53, lines 56-73.  A subtraction whose shapes
\* do not broadcast raises ValueError and an assignment past the end of an output
\* raises IndexError.  (The locals mat1, mat2 and MSD_mat are bound by \E over a
\* singleton, which evaluates each of them once.)
LoopBody ==
    /\ pc = "loop"
    /\ it < num_frames
    /\ MSD_step' = compute_MSD_frames[it + 1]
    /\ idx1' = mat1_idx(MSD_step')
    /\ idx2' = mat2_idx(MSD_step')
    /\ IF broadcast_len(Len(idx1'), Len(idx2')) < 0
       THEN /\ pc' = "error"
            /\ error' = "ValueError"
            /\ UNCHANGED << MSD_vector, atom_MSD_vector, mp, it, writes >>
       ELSE IF mp >= num_frames
       THEN /\ pc' = "error"
            /\ error' = "IndexError"
            /\ UNCHANGED << MSD_vector, atom_MSD_vector, mp, it, writes >>
       ELSE \E mat1 \in {take(xyz, idx1')}, mat2 \in {take(xyz, idx2')} :
            \E MSD_mat \in {square_diff(mat1, mat2)} :
               /\ MSD_vector' = [MSD_vector EXCEPT ![mp + 1] = ave_MSD(MSD_mat)]
               /\ atom_MSD_vector' =
                     [a \in 1..n_atoms |->
                         [atom_MSD_vector[a] EXCEPT
                             ![mp + 1] = ave_atom_MSD(MSD_mat, a - 1)]]
               /\ writes' = [writes EXCEPT ![mp + 1] = @ + 1]
               /\ mp' = next_mp(mp)
               /\ it' = it + 1
               /\ UNCHANGED << pc, error >>
    /\ UNCHANGED << xyz, step_jump, start_frame, compute_MSD_frames >>
    /\ UNCHANGED fitVars

\* Line 76.
Return ==
    /\ pc = "loop"
    /\ it >= num_frames
    /\ pc' = "done"
    /\ UNCHANGED << xyz, step_jump, start_frame, error, compute_MSD_frames,
                    MSD_vector, atom_MSD_vector, mp, it, MSD_step, idx1, idx2,
                    writes >>
    /\ UNCHANGED fitVars

Next == SetupRaises \/ Setup \/ LoopBody \/ Return

Spec == Init /\ [][Next]_vars

\* ------------------------------------------------------------ fit_d

\* Python 3's round(x) of the non-negative quotient x = p / q (q > 0): to the
\* nearest integer, a tie to the even one.  (For the fractions and lengths of
\* this model the float product nf*frac rounds as the exact product does.)
py_round(p, q) ==
    LET fl == p \div q
        r == p % q
    IN IF 2 * r < q THEN fl
       ELSE IF 2 * r > q THEN fl + 1
       ELSE IF fl % 2 = 0 THEN fl ELSE fl + 1

\* Line 99: [round(nf*frac_range[0]), round(nf*frac_range[0])].
fit_frame_bound_from_start(nf, fr) == << 0, py_round(nf * fr[1][1], fr[1][2]) >>

fit_frame_bound(nf, fr) ==
    << py_round(nf * fr[1][1], fr[1][2]), py_round(nf * fr[1][1], fr[1][2]) >>

\* s[lo:hi] for 0 <= lo, 0 <= hi.
slice(s, lo, hi) ==
    LET h == IF hi > Len(s) THEN Len(s) ELSE hi
    IN IF lo >= h THEN << >> ELSE SubSeq(s, lo + 1, h)

RECURSIVE dot(_, _)
dot(x, y) == IF x = << >> THEN 0 ELSE Head(x) * Head(y) + dot(Tail(x), Tail(y))

\* np.polyfit(x, y, 1) for Len(x) = Len(y): the least-squares slope coeff[0].
\* An empty x raises TypeError ("expected non-empty vector for x").  When the
\* abscissae do not determine a line (one point) numpy warns of a rank
\* deficiency and returns the minimum-norm solution of its scaled system, whose
\* slope is y0 / (2*x0).
polyfit_slope(x, y) ==
    LET n == Len(x)
        det == n * dot(x, x) - sum1(x) * sum1(x)
    IN IF n = 0 THEN [kind |-> "TypeError", slope |-> Rat(0, 0)]
       ELSE IF det = 0 THEN [kind |-> "value", slope |-> Rat(y[1], 2 * x[1])]
       ELSE [kind |-> "value",
             slope |-> Rat(n * dot(x, y) - sum1(x) * sum1(y), det)]

\* Lines 110-112: pow(10,14) / pow(10,12), computed on the exponents.
nm2_2_cm2_exp == 14
ps_2_s_exp == 12
unit_coeff == 10 ^ (nm2_2_cm2_exp - ps_2_s_exp)

\* Lines 98-116: the frame bound, and what the call ends in.
fit_d(msd, tms, fr) ==
    LET fb == fit_frame_bound(Len(msd), fr)
        MSD_fit == slice(msd, fb[1], fb[2])
        times_fit == slice(tms, fb[1], fb[2])
        coeff == polyfit_slope(times_fit, MSD_fit)
    IN IF coeff.kind # "value"
       THEN [bound |-> fb, result |-> [kind |-> coeff.kind, D |-> Rat(0, 0)]]
       ELSE [bound |-> fb,
             result |-> [kind |-> "value",
                         D |-> Rat(coeff.slope.num * unit_coeff,
                                   coeff.slope.den * 6)]]

\* The fractions a caller passes, as <<numerator, denominator>>: the quarters and
\* the tenths of [0, 1].
FracDens == {4, 10}
Fractions == { <<n, d>> : n \in 0..10, d \in FracDens } \ { <<n, 4>> : n \in 5..10 }

\* The time axis of nf samples dt apart, the noise-free diffusive curve
\* MSD(t) = 6*D*t on it, and the ballistic curve MSD(t) = t^2.
time_axis(nf, dt) == [k \in 1..nf |-> (k - 1) * dt]
linear_curve(D, tms) == [k \in 1..Len(tms) |-> 6 * D * tms[k]]
ballistic_curve(tms) == [k \in 1..Len(tms) |-> tms[k] * tms[k]]

InitMsdIdle ==
    /\ xyz = << << <<0, 0, 0>> >> >>
    /\ step_jump = 1
    /\ start_frame = 0
    /\ pc = "idle"
    /\ error = "none"
    /\ compute_MSD_frames = << >>
    /\ MSD_vector = << >>
    /\ atom_MSD_vector = << >>
    /\ mp = 0
    /\ it = 0
    /\ MSD_step = -1
    /\ idx1 = << >>
    /\ idx2 = << >>
    /\ writes = << >>

\* A call of fit_d: a curve and a time axis of the same length, and any two
\* fractions of [0, 1] as frac_range, in order or not.
InitFit ==
    /\ \E nf \in 0..MaxCurveLen, dt \in 1..MaxDt :
          /\ times = time_axis(nf, dt)
          /\ MSD \in { linear_curve(D, times) : D \in 1..MaxD }
                     \cup { ballistic_curve(times) }
    /\ frac_range \in Fractions \X Fractions
    /\ fpc = "call"
    /\ frame_bound = << >>
    /\ result = NoResult
    /\ InitMsdIdle

\* Lines 98-116.
FitD ==
    /\ fpc = "call"
    /\ frame_bound' = fit_d(MSD, times, frac_range).bound
    /\ result' = fit_d(MSD, times, frac_range).result
    /\ fpc' = "returned"
    /\ UNCHANGED << MSD, times, frac_range >>
    /\ UNCHANGED msdVars

NextFit == FitD

SpecFit == InitFit /\ [][NextFit]_vars

\* ------------------------------------------------------ the claims on fit_d

nf_fit == Len(MSD)
lower == frac_range[1]
upper == frac_range[2]

\* Comparisons of two fractions <<n, d>>.
FracLess(f, g) == f[1] * g[2] < g[1] * f[2]
FracEq(f, g) == f[1] * g[2] = g[1] * f[2]

\* The window of the specification: [round(n*lower), round(n*upper)).
lo_spec == py_round(nf_fit * lower[1], lower[2])
hi_spec == py_round(nf_fit * upper[1], upper[2])

\* C3: fit_d fits over [lo, hi) with lo = round(n*lower) and hi = round(n*upper),
\* so the window is non-degenerate whenever round(n*lower) < round(n*upper).
C3_WindowFromLowerAndUpper ==
    fpc = "returned" =>
        /\ frame_bound = << lo_spec, hi_spec >>
        /\ lo_spec < hi_spec => frame_bound[1] < frame_bound[2]

\* C4 as stated: with a zero-width frac_range (lower = upper) the call ends in
\* InsufficientDataError or InvalidRangeError, and with an inverted one
\* (lower > upper) in InvalidRangeError.
C4_AsClaimed ==
    fpc = "returned" =>
        /\ FracEq(lower, upper) =>
              result.kind \in {"InsufficientDataError", "InvalidRangeError"}
        /\ FracLess(upper, lower) => result.kind = "InvalidRangeError"

\* C4 amended: with a zero-width or an inverted frac_range the window is empty
\* and the call ends in the TypeError np.polyfit raises for an empty vector; it
\* returns no number.
C4_EmptyWindowRaises ==
    (fpc = "returned" /\ ~FracLess(lower, upper)) =>
        /\ frame_bound[1] >= frame_bound[2]
        /\ result.kind = "TypeError"

\* The inverted range [0.6, 0.4] on a curve whose first 0.6 holds many points.
C4_Witness ==
    /\ fpc = "returned"
    /\ frac_range = << <<6, 10>>, <<4, 10>> >>
    /\ nf_fit >= 5
    /\ result.kind = "TypeError"

IsLinear(D) == nf_fit >= 1 /\ MSD = linear_curve(D, times)

\* C7: on the noise-free curve MSD(t) = 6*D_true*t, fit_d returns 100*D_true for
\* every valid frac_range whose window [round(n*lower), round(n*upper)) holds at
\* least 2 points.
C7_FitRoundTrip ==
    fpc = "returned" =>
        \A D \in 1..MaxD :
            (IsLinear(D) /\ ~FracLess(upper, lower) /\ hi_spec - lo_spec >= 2) =>
                /\ result.kind = "value"
                /\ RatEq(result.D, Rat(100 * D, 1))

\* ------------------------------------------------- the claims on compute_msd

\* What the specification asks of a call: step_jump >= 1 (Init draws F >= 1,
\* N >= 1 and 0 <= start_frame < F already).
ValidCall == step_jump >= 1

Ceil(a, b) == (a + b - 1) \div b

\* (x[i+L, a, d] - x[i, a, d])^2 for t = <<i, a, d>>, i a 0-based frame, a a
\* 1-based atom, d a 1-based axis.
SqDisp(L, t) ==
    (xyz[t[1] + L + 1][t[2]][t[3]] - xyz[t[1] + 1][t[2]][t[3]])
    * (xyz[t[1] + L + 1][t[2]][t[3]] - xyz[t[1] + 1][t[2]][t[3]])

RECURSIVE SumSqDisp(_, _)
SumSqDisp(L, S) ==
    IF S = {} THEN 0
    ELSE LET t == CHOOSE u \in S : TRUE
         IN SqDisp(L, t) + SumSqDisp(L, S \ {t})

\* The frame-pair starts of lag L, and the (pair, atom, axis) triples over the
\* atoms A.
PairStarts(L) == start_frame..(end_frame - L - 1)
Triples(L, A) == PairStarts(L) \X A \X (1..3)

\* 3 times the arithmetic mean of the squared displacements of lag L over the
\* atoms A.
ThreeMeans(L, A) ==
    Rat(3 * SumSqDisp(L, Triples(L, A)), Cardinality(Triples(L, A)))

\* C1: on return from a valid call, the entry of the averaged curve for every
\* evaluated lag L is 3 times the mean of (x[i+L,a,d] - x[i,a,d])^2 over all
\* pair starts i in [start_frame, F - L), all atoms a and the 3 axes d.
C1_AveragedCurve ==
    (pc = "done" /\ ValidCall) =>
        /\ Len(MSD_vector) = num_frames
        /\ \A k \in 1..num_frames :
              RatEq(MSD_vector[k],
                    ThreeMeans(compute_MSD_frames[k], 1..n_atoms))

\* A returned curve of a moving trajectory of two atoms, leading frames skipped.
C1_Witness ==
    /\ pc = "done" /\ ValidCall
    /\ num_frames >= 2
    /\ n_atoms >= 2
    /\ start_frame >= 1
    /\ MSD_vector[2].num > 0

\* C2: on return from a valid call, the entry of the per-atom matrix at row a
\* and the column of lag L is 3 times the mean of (x[i+L,a,d] - x[i,a,d])^2 over
\* the pair starts i in [start_frame, F - L) and the 3 axes d, atom a only.
C2_PerAtomMatrix ==
    (pc = "done" /\ ValidCall) =>
        /\ Len(atom_MSD_vector) = n_atoms
        /\ \A a \in 1..n_atoms :
              /\ Len(atom_MSD_vector[a]) = num_frames
              /\ \A k \in 1..num_frames :
                    RatEq(atom_MSD_vector[a][k],
                          ThreeMeans(compute_MSD_frames[k], {a}))

\* Two atoms whose curves differ at a lag > 0.
C2_Witness ==
    /\ pc = "done" /\ ValidCall
    /\ num_frames >= 2
    /\ n_atoms >= 2
    /\ ~RatEq(atom_MSD_vector[1][2], atom_MSD_vector[2][2])

\* C5: on return from a valid call, the first entry of the averaged curve is 0
\* and the first column of the per-atom matrix is 0 for every atom.
C5_ZeroLag ==
    (pc = "done" /\ ValidCall) =>
        /\ num_frames >= 1
        /\ compute_MSD_frames[1] = 0
        /\ RatEq(MSD_vector[1], Zero)
        /\ \A a \in 1..n_atoms : RatEq(atom_MSD_vector[a][1], Zero)

\* A trajectory that moves, with an atom away from the origin in a frame lag 0
\* compares with itself.
C5_Witness ==
    /\ pc = "done" /\ ValidCall
    /\ num_frames >= 2
    /\ MSD_vector[2].num > 0
    /\ \E a \in 1..n_atoms : xyz[start_frame + 1][a] # <<0, 0, 0>>

\* C6: on return from a valid call, the averaged curve has num_lags entries and
\* the per-atom matrix has shape (N, num_lags), where
\* num_lags = ceil((F - start_frame) / step_jump).
C6_Shapes ==
    (pc = "done" /\ ValidCall) =>
        LET num_lags == Ceil(end_frame - start_frame, step_jump)
        IN /\ Len(MSD_vector) = num_lags
           /\ Len(atom_MSD_vector) = n_atoms
           /\ \A a \in 1..n_atoms : Len(atom_MSD_vector[a]) = num_lags

\* A stride that divides the usable span and one that does not are both reached;
\* the witness is the first.
C6_Witness ==
    /\ pc = "done" /\ ValidCall
    /\ step_jump >= 2
    /\ (end_frame - start_frame) % step_jump = 0
    /\ Len(MSD_vector) >= 1

\* C9: in a valid call, at the head of every iteration the running index mp is
\* the position of the for loop in the lag sequence; the columns before it were
\* each assigned exactly once and hold the value of lag k*step_jump (k 0-based),
\* the columns from it on were never assigned and still hold their initial 0;
\* the lags increase strictly; and on return mp is the number of lags.
C9_RunningIndex ==
    (pc \in {"loop", "done"} /\ ValidCall) =>
        /\ mp = it
        /\ it <= num_frames
        /\ \A k \in 1..num_frames :
              /\ compute_MSD_frames[k] = (k - 1) * step_jump
              /\ k > 1 => compute_MSD_frames[k - 1] < compute_MSD_frames[k]
              /\ k <= it =>
                    /\ writes[k] = 1
                    /\ RatEq(MSD_vector[k],
                             ThreeMeans((k - 1) * step_jump, 1..n_atoms))
                    /\ \A a \in 1..n_atoms :
                          RatEq(atom_MSD_vector[a][k],
                                ThreeMeans((k - 1) * step_jump, {a}))
              /\ k > it =>
                    /\ writes[k] = 0
                    /\ MSD_vector[k] = Zero
                    /\ \A a \in 1..n_atoms : atom_MSD_vector[a][k] = Zero
        /\ it >= 1 => MSD_step = compute_MSD_frames[it]
        /\ pc = "done" => mp = num_frames

\* The loop in the middle of a run of at least three lags.
C9_Witness ==
    /\ pc = "loop" /\ ValidCall
    /\ num_frames >= 3
    /\ it = 2
    /\ MSD_vector[2].num > 0

\* C10: in a valid call every lag L satisfies 0 <= L < F - start_frame; the
\* iteration of lag L averages exactly F - start_frame - L >= 1 frame pairs; and
\* every frame index it reads, i and i + L, lies in [start_frame, F).
C10_IndexBounds ==
    ValidCall =>
        /\ \A k \in 1..num_frames :
              /\ 0 <= compute_MSD_frames[k]
              /\ compute_MSD_frames[k] < end_frame - start_frame
        /\ MSD_step # -1 =>
              /\ Len(idx1) = end_frame - start_frame - MSD_step
              /\ Len(idx2) = Len(idx1)
              /\ Len(idx1) >= 1
              /\ \A j \in 1..Len(idx1) :
                    /\ start_frame <= idx1[j] /\ idx1[j] < end_frame
                    /\ idx2[j] = idx1[j] + MSD_step
                    /\ start_frame <= idx2[j] /\ idx2[j] < end_frame
        /\ error = "none"

\* The last lag of a call that skips leading frames: one pair, from the first
\* usable frame to the last frame.
C10_Witness ==
    /\ ValidCall
    /\ start_frame >= 1
    /\ MSD_step >= 1
    /\ idx1 = <<start_frame>>
    /\ idx2 = <<end_frame - 1>>

\* C8 as stated: a call with step_jump < 1 ends in InvalidRangeError, raised
\* before any lag is computed, and never returns a result.
C8_AsClaimed ==
    (step_jump < 1 /\ pc # "call") =>
        /\ pc = "error"
        /\ error = "InvalidRangeError"

\* C8 amended: a call with step_jump = 0 ends in the ZeroDivisionError np.arange
\* raises, before any lag is computed; a call with step_jump < 0 computes no lag
\* either and returns an empty curve and a matrix of N empty rows.
C8_InvalidStep ==
    (step_jump < 1 /\ pc # "call") =>
        /\ MSD_step = -1 /\ it = 0 /\ mp = 0
        /\ step_jump = 0 =>
              /\ pc = "error"
              /\ error = "ZeroDivisionError"
              /\ MSD_vector = << >>
        /\ step_jump < 0 =>
              /\ pc \in {"loop", "done"}
              /\ error = "none"
              /\ compute_MSD_frames = << >>
              /\ MSD_vector = << >>
              /\ atom_MSD_vector = [a \in 1..n_atoms |-> << >>]

\* A negative stride on a trajectory of two atoms, returned.
C8_Witness ==
    /\ step_jump < 0
    /\ pc = "done"
    /\ n_atoms >= 2

====
